---- MODULE Spec2Model ----
(***************************************************************************)
(* Model of knapsack-dfs.py: the brute-force 0/1 knapsack solver           *)
(* (powerset, ks_brute_force) and the ordered depth-first solver with      *)
(* optional branch-and-bound (ks_dfs, ks_dfs_step).                        *)
(*                                                                         *)
(* The recursion of ks_dfs_step is modelled by the sequence of calls that  *)
(* are still to be made (stack): one DfsStep is one call of ks_dfs_step up *)
(* to the point where it either returns or makes its recursive calls; the  *)
(* include call is placed before the exclude call, which is placed before  *)
(* the calls pending in the callers, so the calls happen in the order of   *)
(* the Python recursion.                                                   *)
(*                                                                         *)
(* Item indices are 0-based as in the source; TLA+ sequences are 1-based,  *)
(* so the Python S[i] is S[i + 1] here.                                    *)
(***************************************************************************)
EXTENDS Integers, Sequences, FiniteSets

\* Bounds of the model: number of items, item weight/value, capacity.
MaxN == 3
MaxAttr == 2
MaxCap == 4

\* Selector values.  Python's None is encoded as -1; 0 is a falsy selector
\* that is not None, 3 is a truthy selector that names no heuristic.
None == -1
HEURISTIC_FAST == 1
HEURISTIC_ACCURATE == 2
Selectors == {None, 0, HEURISTIC_FAST, HEURISTIC_ACCURATE, 3}

VARIABLES
    ks,       \* the Knapsack instance: [c, n, v, w]
    pc,       \* "init", "bf", "dfs", "done", "error"
    bf_seen,  \* the list of subsets ks_brute_force iterated over
    bf_t,     \* subset returned by ks_brute_force
    bf_val,   \* value returned by ks_brute_force
    bb,       \* heuristic selector given to ks_dfs
    S,        \* item indices by decreasing value density
    stack,    \* calls of ks_dfs_step still to be made, next one first
    max_t,    \* ks_dfs: best packing so far
    max_val   \* ks_dfs: best value so far

vars == <<ks, pc, bf_seen, bf_t, bf_val, bb, S, stack, max_t, max_val>>

\* Knapsack instances: n items, attributes in 1..MaxAttr (randrange(1, maxv+1)).
Knapsack ==
    UNION { [c : 0..MaxCap, n : {m},
             v : [0..(m - 1) -> 1..MaxAttr],
             w : [0..(m - 1) -> 1..MaxAttr]] : m \in 0..MaxN }

\* list(range(n))
range(m) == [k \in 1..m |-> k - 1]

\* powerset(l): start from [set()], each element doubles the list.
RECURSIVE powersetLoop(_, _)
powersetLoop(l, result) ==
    IF l = <<>> THEN result
    ELSE LET e == Head(l)
         IN powersetLoop(Tail(l),
                result \o [k \in 1..Len(result) |-> result[k] \cup {e}])

powerset(l) == powersetLoop(l, << {} >>)

\* fsum(a, t): sum of a[e] for e in t.
RECURSIVE fsum(_, _)
fsum(a, t) ==
    IF t = {} THEN 0
    ELSE LET e == CHOOSE x \in t : TRUE
         IN a[e] + fsum(a, t \ {e})

\* Variants of Overweight: a subset one over the capacity is kept; a subset
\* exactly at the capacity is skipped.
OverweightLoose(t) == fsum(ks.w, t) > ks.c + 1

OverweightStrict(t) == fsum(ks.w, t) >= ks.c

\* The capacity test of the brute-force loop: the subset is skipped.
Overweight(t) == fsum(ks.w, t) > ks.c

\* The update test of the brute-force loop.
bfBetter(val, best) == val > best

\* The for loop of ks_brute_force over the list ps, from position k on,
\* carrying (max_t, max_val).
RECURSIVE bfLoop(_, _, _, _)
bfLoop(ps, k, mt, mv) ==
    IF k > Len(ps) THEN <<mt, mv>>
    ELSE LET t == ps[k]
             val == fsum(ks.v, t)
         IN IF Overweight(t) THEN bfLoop(ps, k + 1, mt, mv)
            ELSE IF bfBetter(val, mv) THEN bfLoop(ps, k + 1, t, val)
            ELSE bfLoop(ps, k + 1, mt, mv)

ks_brute_force == bfLoop(powerset(range(ks.n)), 1, {}, 0)

\* Variant of Denser: the order of increasing density (reverse=True left out).
Sparser(a, b) == ks.v[a] * ks.w[b] < ks.v[b] * ks.w[a]

\* density(x) of item a is greater than that of item b.  The source compares
\* float(v)/float(w); for attributes <= 6 the doubles compare as the exact
\* rationals do.
Denser(a, b) == ks.v[a] * ks.w[b] > ks.v[b] * ks.w[a]

\* sorted(..., key=density, reverse=True) is stable: an item goes in front of
\* the first item of strictly smaller density, after its equals.
RECURSIVE Insert(_, _)
Insert(x, s) ==
    IF s = <<>> THEN <<x>>
    ELSE IF Denser(x, Head(s)) THEN <<x>> \o s
    ELSE <<Head(s)>> \o Insert(x, Tail(s))

RECURSIVE SortedFrom(_, _)
SortedFrom(l, acc) ==
    IF l = <<>> THEN acc
    ELSE SortedFrom(Tail(l), Insert(Head(l), acc))

DensityOrder == SortedFrom(range(ks.n), <<>>)

\* ceil(rem * (vv / ww)).  The source multiplies by the double vv / ww; for
\* rem <= 8 and attributes <= 6 the double result has the same ceiling as the
\* exact rational rem * vv / ww.
CeilMul(rem, vv, ww) == (rem * vv + ww - 1) \div ww

\* HEURISTIC_FAST: fill the rest of the basket at the density of item S[i].
FastBound(i, weight) ==
    LET j == S[i + 1]
        rem_weight == ks.c - weight
    IN CeilMul(rem_weight, ks.v[j], ks.w[j])

\* HEURISTIC_ACCURATE: fractional fill over S[i..n-1]; the loop from k on.
RECURSIVE AccurateLoop(_, _, _)
AccurateLoop(k, optimum_rest, acc_weight) ==
    IF k >= Len(S) THEN optimum_rest
    ELSE LET m == S[k + 1]
         IN IF ks.w[m] + acc_weight > ks.c
            THEN optimum_rest + CeilMul(ks.c - acc_weight, ks.v[m], ks.w[m])
            ELSE AccurateLoop(k + 1, optimum_rest + ks.v[m], acc_weight + ks.w[m])

\* Variant of AccurateBound: the fill starts from an empty basket.
AccurateBoundNoWeight(i, weight) == AccurateLoop(i, 0, 0)

AccurateBound(i, weight) == AccurateLoop(i, 0, weight)

\* `if bb:` -- None and 0 are falsy.
Truthy(x) == x # None /\ x # 0

\* Variant of Better: an equal value replaces the best too.
BetterOrEqual(val, best) == val >= best

\* `if val > max_val:` of ks_dfs_step.
Better(val, best) == val > best

\* Variants of Fits: one over the capacity is accepted; exactly the capacity
\* is refused.
FitsLoose(new_weight) == new_weight <= ks.c + 1

FitsStrict(new_weight) == new_weight < ks.c

\* `if new_weight <= ks.c:` of ks_dfs_step.
Fits(new_weight) == new_weight <= ks.c

\* Variant of NextIndex: the recursive calls stay on the same item.
NextIndexSame(i) == i

\* The index passed to the recursive calls.
NextIndex(i) == i + 1

\* Variant of Prune: the value already packed is left out of the estimate.
PruneNoVal(val, optimum_rest, best) == optimum_rest <= best

\* `if val + optimum_rest <= max_val: return`
Prune(val, optimum_rest, best) == val + optimum_rest <= best

Frame(i, T, val, weight) == [i |-> i, T |-> T, val |-> val, weight |-> weight]

Init ==
    /\ ks \in Knapsack
    /\ pc = "init"
    /\ bf_seen = <<>>
    /\ bf_t = {}
    /\ bf_val = 0
    /\ bb = None
    /\ S = <<>>
    /\ stack = <<>>
    /\ max_t = {}
    /\ max_val = 0

\* sbf, wbf = ks_brute_force(ks)
BruteForce ==
    /\ pc = "init"
    /\ bf_seen' = powerset(range(ks.n))
    /\ bf_t' = ks_brute_force[1]
    /\ bf_val' = ks_brute_force[2]
    /\ pc' = "bf"
    /\ UNCHANGED <<ks, bb, S, stack, max_t, max_val>>

\* ks_dfs(ks, bb=h) up to the first call of ks_dfs_step.
StartDfs ==
    /\ pc = "bf"
    /\ \E h \in Selectors : bb' = h
    /\ max_t' = {}
    /\ max_val' = 0
    /\ S' = DensityOrder
    /\ stack' = << Frame(0, {}, 0, 0) >>
    /\ pc' = "dfs"
    /\ UNCHANGED <<ks, bf_seen, bf_t, bf_val>>

\* One call ks_dfs_step(i, T, val, weight).
DfsStep ==
    /\ pc = "dfs"
    /\ stack # <<>>
    /\ LET f == Head(stack)
           i == f.i
           n == Len(S)
           improved == Better(f.val, max_val)
           best == IF improved THEN f.val ELSE max_val
       IN /\ max_val' = best
          /\ max_t' = IF improved THEN f.T ELSE max_t
          /\ \/ \* no more items
                /\ i >= n
                /\ stack' = Tail(stack)
                /\ pc' = pc
             \/ \* unknown heuristic
                /\ i < n
                /\ Truthy(bb)
                /\ bb # HEURISTIC_FAST
                /\ bb # HEURISTIC_ACCURATE
                /\ stack' = <<>>    \* exit() unwinds every pending call
                /\ pc' = "error"
             \/ \* bound reached: prune
                /\ i < n
                /\ Truthy(bb)
                /\ \/ bb = HEURISTIC_FAST
                      /\ Prune(f.val, FastBound(i, f.weight), best)
                   \/ bb = HEURISTIC_ACCURATE
                      /\ Prune(f.val, AccurateBound(i, f.weight), best)
                /\ stack' = Tail(stack)
                /\ pc' = pc
             \/ \* branch
                /\ i < n
                /\ \/ ~Truthy(bb)
                   \/ bb = HEURISTIC_FAST
                      /\ ~Prune(f.val, FastBound(i, f.weight), best)
                   \/ bb = HEURISTIC_ACCURATE
                      /\ ~Prune(f.val, AccurateBound(i, f.weight), best)
                /\ LET j == S[i + 1]
                       new_weight == f.weight + ks.w[j]
                       incl == IF Fits(new_weight)
                               THEN << Frame(NextIndex(i), f.T \cup {j},
                                             f.val + ks.v[j], new_weight) >>
                               ELSE <<>>
                       excl == << Frame(NextIndex(i), f.T, f.val, f.weight) >>
                   IN stack' = incl \o excl \o Tail(stack)
                /\ pc' = pc
    /\ UNCHANGED <<ks, bf_seen, bf_t, bf_val, bb, S>>

\* return (max_t, max_val)
DfsReturn ==
    /\ pc = "dfs"
    /\ stack = <<>>
    /\ pc' = "done"
    /\ UNCHANGED <<ks, bf_seen, bf_t, bf_val, bb, S, stack, max_t, max_val>>

Next == BruteForce \/ StartDfs \/ DfsStep \/ DfsReturn

Spec == Init /\ [][Next]_vars

(***************************************************************************)
(* Vocabulary of the properties, defined without the operators above.      *)
(* The result of ks_brute_force is examined in the state where it returns  *)
(* (pc = "bf"); bf_seen, bf_t and bf_val never change afterwards.          *)
(***************************************************************************)
Items == 0..(ks.n - 1)

RECURSIVE Total(_, _)
Total(a, t) ==
    IF t = {} THEN 0
    ELSE LET e == CHOOSE x \in t : TRUE
         IN Total(a, t \ {e}) + a[e]

Feasible(t) == Total(ks.w, t) <= ks.c

Max(X) == CHOOSE x \in X : \A y \in X : y <= x

\* The optimum of the instance.
OptValue == Max({ Total(ks.v, t) : t \in { u \in SUBSET Items : Feasible(u) } })

\* The three heuristic choices of the self-test.
Choices == {None, HEURISTIC_FAST, HEURISTIC_ACCURATE}

Frames == { stack[k] : k \in 1..Len(stack) }

\* The node about to be visited, when it has an item left to decide.  Every
\* call of ks_dfs_step is at the head of the stack right before it is made.
OpenFrames == IF stack # <<>> /\ Head(stack).i < Len(S) THEN {Head(stack)} ELSE {}

\* Items S[i..n-1] in the source's indexing.
Remaining(i) == { S[k] : k \in (i + 1)..Len(S) }

\* The most value that can be added at node (i, weight) from the remaining items.
BestRest(i, weight) ==
    Max({ Total(ks.v, t) :
            t \in { u \in SUBSET Remaining(i) : Total(ks.w, u) <= ks.c - weight } })

\* C1: for each of the three heuristic choices, the value ks_dfs returns is
\* the value ks_brute_force returns.
C1_Equivalence ==
    (pc = "done" /\ bb \in Choices) => max_val = bf_val

C1_Witness ==
    /\ pc = "done"
    /\ bb = HEURISTIC_ACCURATE
    /\ ks.n >= 2
    /\ max_val = bf_val
    /\ max_t # {}
    /\ max_t # Items

\* C2: the subset returned by ks_brute_force and the subset returned by
\* ks_dfs weigh at most the capacity.
C2_Feasibility ==
    /\ pc = "bf" => Total(ks.w, bf_t) <= ks.c
    /\ pc = "done" => Total(ks.w, max_t) <= ks.c

C2_Witness ==
    /\ pc = "done"
    /\ bb \in Choices
    /\ max_t # {}
    /\ Total(ks.w, max_t) = ks.c
    /\ Total(ks.w, bf_t) = ks.c
    /\ \E e \in Items \ max_t : Total(ks.w, max_t \cup {e}) > ks.c

\* C3: ks_brute_force iterates over each of the 2^n subsets exactly once,
\* returns a subset with its value, no feasible subset is worth more, and
\* the subset returned is the first one of that value in the iteration
\* (the empty set when nothing is worth more than 0).
C3_BruteForce ==
    pc = "bf" =>
        /\ Len(bf_seen) = 2 ^ ks.n
        /\ \A t \in SUBSET Items :
              Cardinality({ k \in 1..Len(bf_seen) : bf_seen[k] = t }) = 1
        /\ bf_val = Total(ks.v, bf_t)
        /\ Feasible(bf_t)
        /\ \A t \in SUBSET Items : Feasible(t) => Total(ks.v, t) <= bf_val
        /\ \E k \in 1..Len(bf_seen) :
              /\ bf_seen[k] = bf_t
              /\ \A m \in 1..(k - 1) :
                    Feasible(bf_seen[m]) => Total(ks.v, bf_seen[m]) < bf_val \/ bf_val = 0

C3_Witness ==
    /\ pc = "bf"
    /\ ks.n >= 2
    /\ bf_val > 0
    /\ \E t \in SUBSET Items : ~Feasible(t) /\ Total(ks.v, t) > bf_val
    /\ \E t \in SUBSET Items : t # bf_t /\ Feasible(t) /\ Total(ks.v, t) = bf_val

\* C4: at every node of the search with an item left, the fast bound and the
\* accurate bound are at least the most value that the remaining items can
\* add within the remaining capacity.
C4_Admissible ==
    pc = "dfs" =>
        \A f \in OpenFrames :
            /\ FastBound(f.i, f.weight) >= BestRest(f.i, f.weight)
            /\ AccurateBound(f.i, f.weight) >= BestRest(f.i, f.weight)

C4_Witness ==
    /\ pc = "dfs"
    /\ \E f \in OpenFrames :
          /\ f.i > 0
          /\ BestRest(f.i, f.weight) > 0
          /\ AccurateBound(f.i, f.weight) = BestRest(f.i, f.weight)
          /\ FastBound(f.i, f.weight) > BestRest(f.i, f.weight)

C6_UnknownSelectorNeverReturns ==
    pc = "done" => bb \in Choices

\* The cases of C7 for a result (t, val).
Degenerate(t, val) ==
    /\ ks.n = 0 => t = {} /\ val = 0
    /\ ks.c = 0 => t = {} /\ val = 0
    /\ (ks.n = 1 /\ ks.w[0] <= ks.c) => t = {0} /\ val = ks.v[0]

\* C7: with no item, or with capacity 0, both solvers return the empty
\* subset and 0; with a single item that fits they return that item and
\* its value.
C7_Degenerate ==
    /\ pc = "bf" => Degenerate(bf_t, bf_val)
    /\ (pc = "done" /\ bb \in Choices) => Degenerate(max_t, max_val)

C7_Witness ==
    /\ pc = "done"
    /\ bb = HEURISTIC_FAST
    /\ ks.n = 1
    /\ ks.w[0] = ks.c
    /\ max_t = {0}
    /\ bf_t = {0}

\* The best-so-far pair is feasible and carries its own value.
BestConsistent ==
    pc \in {"dfs", "done", "error"} =>
        /\ max_t \subseteq Items
        /\ max_val = Total(ks.v, max_t)
        /\ Total(ks.w, max_t) <= ks.c

\* The search starts from (empty set, 0), a visited node replaces the pair
\* exactly when its value is strictly greater, and max_val never decreases.
BestUpdate ==
    /\ pc = "bf" => max_t' = {} /\ max_val' = 0
    /\ max_val' >= max_val
    /\ (pc = "dfs" /\ stack # <<>>) =>
          IF Head(stack).val > max_val
          THEN max_t' = Head(stack).T /\ max_val' = Head(stack).val
          ELSE max_t' = max_t /\ max_val' = max_val
    /\ (pc = "dfs" /\ stack = <<>>) => max_t' = max_t /\ max_val' = max_val

\* C8: throughout a ks_dfs search (max_t, max_val) is consistent and
\* feasible, starts as (empty set, 0), is replaced at a visited node exactly
\* when the node's value is strictly greater, and max_val never decreases.
C8_BestSoFar == []BestConsistent /\ [][BestUpdate]_vars

C8_Witness ==
    /\ pc = "dfs"
    /\ max_t # {}
    /\ stack # <<>>
    /\ Head(stack).i < Len(S)
    /\ Head(stack).val > max_val
    /\ \E k \in 2..Len(stack) : stack[k].val < max_val

\* The arguments of a call describe a feasible packing of decided items.
FrameConsistent ==
    \A f \in Frames :
        /\ f.i \in 0..Len(S)
        /\ f.T \subseteq { S[k] : k \in 1..f.i }
        /\ f.val = Total(ks.v, f.T)
        /\ f.weight = Total(ks.w, f.T)
        /\ f.weight <= ks.c

\* The recursive calls of one ks_dfs_step call.
Branching ==
    (pc = "dfs" /\ stack # <<>> /\ pc' = "dfs") =>
        LET f == Head(stack)
            calls == Len(stack') - Len(stack) + 1
        IN /\ calls \in 0..2
           /\ (f.i < Len(S) /\ bb = None) => calls >= 1
           /\ calls >= 1 =>
                 LET j == S[f.i + 1]
                 IN /\ f.i < Len(S)
                    /\ calls = 2 <=> f.weight + ks.w[j] <= ks.c
                    /\ calls = 2 =>
                          stack'[1] = [i |-> f.i + 1, T |-> f.T \cup {j},
                                       val |-> f.val + ks.v[j],
                                       weight |-> f.weight + ks.w[j]]
                    /\ stack'[calls] = [i |-> f.i + 1, T |-> f.T,
                                        val |-> f.val, weight |-> f.weight]
                    /\ \A k \in 1..(Len(stack) - 1) : stack'[calls + k] = stack[k + 1]

\* C9: at every call, T holds only items among S[0..i-1], val and weight
\* are its sums and weight <= capacity; a node that branches explores the
\* include branch only if the item fits and always explores the exclude
\* branch with T, val and weight unchanged.
C9_Calls == []FrameConsistent /\ [][Branching]_vars

C9_Witness ==
    /\ pc = "dfs"
    /\ Len(stack) >= 2
    /\ stack[1].i = stack[2].i
    /\ stack[1].T # stack[2].T
    /\ stack[2].T # {}
    /\ \E k \in 1..Len(S) : S[k] \notin stack[2].T /\ k <= stack[2].i
    /\ stack[1].i < Len(S)
    /\ stack[1].weight + ks.w[S[stack[1].i + 1]] > ks.c

\* Depth of the search: no call has i > n, and at most one call is pending
\* per level.
DepthBounded ==
    /\ \A f \in Frames : f.i \in 0..ks.n
    /\ Len(stack) <= ks.n + 1
    /\ \A k \in 1..Len(stack), m \in 1..Len(stack) :
          (k + 1 < m) => stack[k].i > stack[m].i

\* A call makes at most two recursive calls, each with i + 1, and none when
\* i >= n.
Descent ==
    (pc = "dfs" /\ stack # <<>>) =>
        LET f == Head(stack)
            calls == Len(stack') - Len(stack) + 1
        IN /\ calls \in 0..2
           /\ f.i >= ks.n => calls = 0
           /\ \A k \in 1..calls : stack'[k].i = f.i + 1

\* Number of calls a full subtree below a call with index i holds, the call
\* included; Pending is the number of calls that can still be made.
RECURSIVE RankSum(_)
RankSum(st) ==
    IF st = <<>> THEN 0
    ELSE (2 ^ (ks.n + 1 - Head(st).i) - 1) + RankSum(Tail(st))

Pending == RankSum(stack)

\* Every call strictly lowers the number of calls that can still be made,
\* the search returns once none is left, and a heuristic choice never exits.
Progress ==
    /\ (pc = "dfs" /\ stack # <<>>) => Pending' < Pending
    /\ (pc = "dfs" /\ stack = <<>>) => pc' = "done"
    /\ bb \in Choices => pc' # "error"

\* C10: every ks_dfs search terminates: each recursive call raises i by one,
\* a call makes at most two of them and none when i >= n, no call has
\* i > n, so every call lowers the number of calls still possible in a tree
\* of depth n.
C10_Termination ==
    /\ []DepthBounded
    /\ [][Descent /\ Progress]_vars

C10_Witness ==
    /\ pc = "dfs"
    /\ bb = HEURISTIC_ACCURATE
    /\ ks.n >= 3
    /\ Len(stack) = ks.n
    /\ Head(stack).i = ks.n
    /\ max_val > 0

====
